---- MODULE Spec2Model ----
(***************************************************************************)
(* Model of the operational programs of NiconiCommonsVecSearch:            *)
(*   - tools/keep-alive.js: the Node loop (setInterval + fetch),           *)
(*   - the scheduled "Keep Railway App Alive" workflow (curl),             *)
(*   - the "Deploy to Railway and Vercel" workflow (jobs and needs),       *)
(*   - deploy.sh (prerequisite checks, backend, frontend, info).           *)
(* A run is a run of one of them: Init draws program.                      *)
(* Time is the wall clock in milliseconds, advanced in steps of Step.      *)
(***************************************************************************)
EXTENDS Integers, Sequences, FiniteSets, TLC

\* ---------------------------------------------------------------- bounds
\* The run is observed for MaxIntervals probe intervals.
MaxIntervals == 2
\* The clock is observed StepsPerInterval times per probe interval.
StepsPerInterval == 2

\* ------------------------------------------------------------- constants
\* keep-alive.js:7   const PING_INTERVAL = 10 * 60 * 1000
PING_INTERVAL == 10 * 60 * 1000
\* keep-alive.js:8   const HEALTH_ENDPOINT = '/health'
HEALTH_ENDPOINT == "/health"
\* keep-alive.js:6   the placeholder after ||
DEFAULT_URL == "https://your-app.railway.app"
\* keep-alive.js:15
USER_AGENT == "KeepAlive-Bot/1.0"

Step == PING_INTERVAL \div StepsPerInterval
Horizon == MaxIntervals * PING_INTERVAL

\* ---------------------------------------------------------------- inputs
\* process.env.RAILWAY_URL: unset, empty, or a URL.
EnvValues ==
    { [defined |-> FALSE, value |-> ""],
      [defined |-> TRUE,  value |-> ""],
      [defined |-> TRUE,  value |-> "https://example.test"] }

\* What the awaited fetch settles with: a Response with a status, or a
\* rejection (DNS failure, connection refused, timeout) with a message.
Statuses == {200, 204, 503}
Messages == {"fetch failed"}
Outcomes ==
    { [kind |-> "response", status |-> s, message |-> ""] : s \in Statuses }
    \cup { [kind |-> "error", status |-> 0, message |-> m] : m \in Messages }
NoOutcome == [kind |-> "none", status |-> 0, message |-> ""]

\* What curl ends with in the workflow: its exit status and the status code
\* it has seen when it ends (0 when no response was received).
CurlResults ==
    { [exit |-> 0, code |-> s] : s \in Statuses }
    \cup { [exit |-> 7, code |-> 0], [exit |-> 56, code |-> 200] }

NoCurl == [exit |-> -1, code |-> 0]

\* The jobs of the deploy workflow.
Jobs == {"deploy-backend", "deploy-frontend", "test-deployment"}

\* deploy.sh: the first argument: none, the three options, anything else.
Options == {"", "--help", "--backend-only", "--frontend-only", "--all"}
\* deploy.sh: exit statuses of the commands it runs (0: success).
CmdStatuses == {0, 1, 2}
\* deploy.sh: what read -n 1 -r leaves in REPLY ("" for Enter); "EOF" stands
\* for end of input, where read fails.
Replies == {"y", "Y", "n", "", "EOF"}

VARIABLES
    program,      \* which of the programs this run is
    env,          \* process.env.RAILWAY_URL
    RAILWAY_URL,  \* the module constant, resolved when the script is loaded
    pc,           \* "boot" before the script body ran, then "running"; "crashed"
    now,          \* wall clock, ms since process start
    timer,        \* the setInterval timer: [armed, due]
    ticks,        \* number of pingServer invocations (startup call + timer firings)
    probes,       \* one record per pingServer invocation
    requests,     \* outbound requests handed to fetch
    log,          \* console output, in order
    step,         \* workflow run: position in the "Ping Railway App" script
    response,     \* workflow run: the shell variable $response
    out,          \* workflow run: the lines the script has echoed
    curl,         \* workflow run: how the health request's curl ended
    jobs,         \* deploy workflow: the state of each job
    option,       \* deploy.sh: its first argument ("" when there is none)
    shpc,         \* deploy.sh: the command the script is at
    trace,        \* deploy.sh: messages printed and commands run, in order
    exitStatus,   \* deploy.sh: its exit status (-1 while it runs)
    projectFile,  \* deploy.sh: .railway/project.json exists
    urlFile       \* deploy.sh: .railway_url exists

nodeVars == <<env, RAILWAY_URL, pc, now, timer, ticks, probes, requests, log>>
runVars == <<step, response, out, curl>>
jobVars == <<jobs>>
shVars == <<option, shpc, trace, exitStatus, projectFile, urlFile>>
vars == <<program, env, RAILWAY_URL, pc, now, timer, ticks, probes, requests, log,
          step, response, out, curl, jobs, option, shpc, trace, exitStatus,
          projectFile, urlFile>>

\* ----------------------------------------------------------- keep-alive.js
\* a || b on strings: undefined and '' are falsy.
OrDefault(v, d) == IF v.defined /\ v.value # "" THEN v.value ELSE d

\* Mutant: every status from 200 up counts as ok.
ResponseOkLoose(status) == status >= 200

\* fetch's Response.ok
ResponseOk(status) == status >= 200 /\ status <= 299

Entry(i, level, stream, status, message, t) ==
    [probe |-> i, level |-> level, stream |-> stream,
     status |-> status, message |-> message, at |-> t]

\* Mutant: the else is missing, the warning follows the success line.
TryBodyFallThrough(i, res, t) ==
    IF res.status >= 200 /\ res.status <= 299
    THEN << Entry(i, "success", "stdout", 0, "Server is alive", t),
            Entry(i, "warning", "stdout", res.status, "Server responded with", t) >>
    ELSE << Entry(i, "warning", "stdout", res.status, "Server responded with", t) >>

\* lines 19-23: the body of try after the await
TryBody(i, res, t) ==
    IF ResponseOk(res.status)
    THEN << Entry(i, "success", "stdout", 0, "Server is alive", t) >>
    ELSE << Entry(i, "warning", "stdout", res.status,
                  "Server responded with", t) >>

\* Mutant: the catch clause logs without the error's message.
CatchBodyDropsMessage(i, error, t) ==
    << Entry(i, "error", "stderr", 0, "", t) >>

\* lines 24-26: the catch clause
CatchBody(i, error, t) ==
    << Entry(i, "error", "stderr", 0, error.message, t) >>

\* Mutant: no catch clause, a rejected fetch rejects pingServer.
PingServerResumeNoCatch(i, outcome, t) ==
    IF outcome.kind = "error"
    THEN [entries |-> << >>, state |-> "rejected"]
    ELSE [entries |-> TryBody(i, outcome, t), state |-> "fulfilled"]

\* Mutant: only the ok branch logs.
PingServerResumeSilent(i, outcome, t) ==
    IF outcome.kind = "error"
    THEN [entries |-> CatchBody(i, outcome, t), state |-> "fulfilled"]
    ELSE [entries |-> IF ResponseOk(outcome.status)
                      THEN TryBody(i, outcome, t) ELSE << >>,
          state |-> "fulfilled"]

\* Mutant: a failure that follows an earlier failure is reported differently.
PingServerResumeEscalates(i, outcome, t) ==
    IF outcome.kind = "error"
    THEN [entries |->
            IF \E j \in 1..(i - 1) : probes[j].outcome.kind = "error"
            THEN << Entry(i, "error", "stderr", 0, "still failing", t) >>
            ELSE CatchBody(i, outcome, t),
          state |-> "fulfilled"]
    ELSE [entries |-> TryBody(i, outcome, t), state |-> "fulfilled"]

\* lines 10-27 after the await: what pingServer logs and how its promise settles
PingServerResume(i, outcome, t) ==
    IF outcome.kind = "error"
    THEN [entries |-> CatchBody(i, outcome, t), state |-> "fulfilled"]
    ELSE [entries |-> TryBody(i, outcome, t),   state |-> "fulfilled"]

\* Mutant: the URL is read from the environment at every call.
RequestReadsEnv(i, t) ==
    [probe |-> i, method |-> "GET",
     url |-> OrDefault(env, DEFAULT_URL) \o HEALTH_ENDPOINT,
     agent |-> USER_AGENT, at |-> t]

\* lines 12-17: the request pingServer hands to fetch
Request(i, t) ==
    [probe |-> i, method |-> "GET", url |-> RAILWAY_URL \o HEALTH_ENDPOINT,
     agent |-> USER_AGENT, at |-> t]

\* lines 10-17: pingServer up to its await
Probe(via, t) ==
    [start |-> t, via |-> via, state |-> "pending", outcome |-> NoOutcome]

\* Mutant: the timer is re-armed late (from the end of the callback).
NextDueDrift(due) == due + PING_INTERVAL + Step

\* Mutant: the timer is re-armed early.
NextDueEarly(due) == due + Step

\* setInterval: the timer is re-armed one interval after it was due
NextDue(due) == due + PING_INTERVAL

Init ==
    /\ program \in {"keep-alive.js", "keep-alive.yml", "deploy.yml", "deploy.sh"}
    /\ jobs = [j \in Jobs |-> "queued"]
    /\ option \in (IF program = "deploy.sh" THEN Options ELSE {""})
    /\ shpc = "main"
    /\ trace = << >>
    /\ exitStatus = -1
    /\ projectFile \in (IF program = "deploy.sh" THEN BOOLEAN ELSE {FALSE})
    /\ urlFile \in (IF program = "deploy.sh" THEN BOOLEAN ELSE {FALSE})
    /\ step = "idle"
    /\ response = ""
    /\ out = << >>
    /\ curl = NoCurl
    /\ env \in EnvValues
    /\ RAILWAY_URL = OrDefault(env, DEFAULT_URL)
    /\ pc = "boot"
    /\ now = 0
    /\ timer = [armed |-> FALSE, due |-> 0]
    /\ ticks = 0
    /\ probes = << >>
    /\ requests = << >>
    /\ log = << >>

\* Mutant: the script body without the first call of pingServer.
MainNoWarmup ==
    /\ program = "keep-alive.js"
    /\ pc = "boot"
    /\ pc' = "running"
    /\ log' = log \o << Entry(0, "info", "stdout", 0, "Starting keep-alive", now),
                        Entry(0, "info", "stdout", 0, "Pinging every", now) >>
    /\ timer' = [armed |-> TRUE, due |-> now + PING_INTERVAL]
    /\ UNCHANGED <<program, env, RAILWAY_URL, now, ticks, probes, requests, runVars, jobVars, shVars>>

\* lines 30-36: the script body: two banner lines, setInterval, pingServer()
Main ==
    /\ program = "keep-alive.js"
    /\ pc = "boot"
    /\ pc' = "running"
    /\ log' = log \o << Entry(0, "info", "stdout", 0, "Starting keep-alive", now),
                        Entry(0, "info", "stdout", 0, "Pinging every", now) >>
    /\ timer' = [armed |-> TRUE, due |-> now + PING_INTERVAL]
    /\ ticks' = ticks + 1
    /\ probes' = Append(probes, Probe("startup", now))
    /\ requests' = Append(requests, Request(Len(probes) + 1, now))
    /\ UNCHANGED <<program, env, RAILWAY_URL, now, runVars, jobVars, shVars>>

\* Mutant: a maximum attempt count, the timer is cleared at the second firing.
TimerFireMaxAttempts ==
    /\ pc = "running"
    /\ timer.armed
    /\ timer.due = now
    /\ IF ticks < 2
       THEN /\ timer' = [timer EXCEPT !.due = NextDue(timer.due)]
            /\ ticks' = ticks + 1
            /\ probes' = Append(probes, Probe("interval", now))
            /\ requests' = Append(requests, Request(Len(probes) + 1, now))
       ELSE /\ timer' = [timer EXCEPT !.armed = FALSE]
            /\ UNCHANGED <<ticks, probes, requests>>
    /\ UNCHANGED <<program, env, RAILWAY_URL, pc, now, log, runVars, jobVars, shVars>>

\* the interval timer fires: pingServer runs up to its await
TimerFire ==
    /\ pc = "running"
    /\ timer.armed
    /\ timer.due = now
    /\ timer' = [timer EXCEPT !.due = NextDue(timer.due)]
    /\ ticks' = ticks + 1
    /\ probes' = Append(probes, Probe("interval", now))
    /\ requests' = Append(requests, Request(Len(probes) + 1, now))
    /\ UNCHANGED <<program, env, RAILWAY_URL, pc, now, log, runVars, jobVars, shVars>>

\* the awaited fetch of probe i settles and pingServer runs to its end
FetchSettles ==
    \E i \in 1..Len(probes), outcome \in Outcomes :
        /\ pc = "running"
        /\ probes[i].state = "pending"
        /\ LET r == PingServerResume(i, outcome, now) IN
            /\ log' = log \o r.entries
            /\ probes' = [probes EXCEPT ![i].state = r.state,
                                        ![i].outcome = outcome]
            \* an unhandled rejection ends the process
            /\ pc' = IF r.state = "rejected" THEN "crashed" ELSE pc
        /\ UNCHANGED <<program, env, RAILWAY_URL, now, timer, ticks, requests, runVars, jobVars, shVars>>

\* the clock advances; a due timer fires before it does
Tick ==
    /\ pc = "running"
    /\ now < Horizon
    /\ ~(timer.armed /\ timer.due <= now)
    /\ now' = now + Step
    /\ UNCHANGED <<program, env, RAILWAY_URL, pc, timer, ticks, probes, requests, log,
                   runVars, jobVars, shVars>>

\* ------------------------------------------- the keep-alive workflow (curl)
Digit == [d \in 0..9 |->
            CASE d = 0 -> "0" [] d = 1 -> "1" [] d = 2 -> "2" [] d = 3 -> "3"
              [] d = 4 -> "4" [] d = 5 -> "5" [] d = 6 -> "6" [] d = 7 -> "7"
              [] d = 8 -> "8" [] d = 9 -> "9"]

\* curl -w "%{http_code}": the status as three digits, 000 when there is none
HttpCode(n) == Digit[n \div 100] \o Digit[(n \div 10) % 10] \o Digit[n % 10]

\* response=$(curl -s -o /dev/null -w "%{http_code}" URL || echo "000"):
\* curl writes the code without a newline; when it fails, echo adds 000
CurlCapture(c) == IF c.exit = 0 THEN HttpCode(c.code) ELSE HttpCode(c.code) \o "000"

\* Mutant: the test looks at the first three characters only.
IsAlivePrefix(r) == r \in {"200", "200000"}

\* [ "$response" = "200" ]
IsAlive(r) == r = "200"

\* the if/else that echoes the result
PingReport(r) ==
    IF IsAlive(r)
    THEN [level |-> "alive", text |-> "App is alive (HTTP " \o r \o ")"]
    ELSE [level |-> "warning", text |-> "App response: HTTP " \o r]

\* a run starts (cron or manual dispatch) on a fresh runner
PingStart ==
    /\ program = "keep-alive.yml"
    /\ step \in {"idle", "done"}
    /\ step' = "curl"
    /\ response' = ""
    /\ curl' = NoCurl
    /\ out' = << [level |-> "info", text |-> "Pinging Railway app to prevent sleep..."] >>
    /\ UNCHANGED <<program, nodeVars, jobVars, shVars>>

\* the health request and the report on it
PingHealth ==
    \E c \in CurlResults :
        /\ program = "keep-alive.yml"
        /\ step = "curl"
        /\ curl' = c
        /\ response' = CurlCapture(c)
        /\ out' = Append(out, PingReport(CurlCapture(c)))
        /\ step' = "model-info"
        /\ UNCHANGED <<program, nodeVars, jobVars, shVars>>

\* curl -s URL/api/model/info | head -200 || echo "Model info not available"
PingModelInfo ==
    \E ok \in BOOLEAN :
        /\ program = "keep-alive.yml"
        /\ step = "model-info"
        /\ out' = out \o << [level |-> "info", text |-> "Checking model warmup status..."],
                           IF ok THEN [level |-> "body", text |-> "model info"]
                                 ELSE [level |-> "info", text |-> "Model info not available"] >>
        /\ step' = "done"
        /\ UNCHANGED <<program, nodeVars, jobVars, shVars, response, curl>>

\* ------------------------------------------------- the deploy workflow
\* Mutant: deploy-frontend without its needs line.
NeedsFrontendFree(j) ==
    IF j = "test-deployment" THEN {"deploy-backend", "deploy-frontend"} ELSE {}

\* needs: of each job
Needs(j) ==
    CASE j = "deploy-backend"  -> {}
      [] j = "deploy-frontend" -> {"deploy-backend"}
      [] j = "test-deployment" -> {"deploy-backend", "deploy-frontend"}

\* a job starts once every job it needs has succeeded
JobStart ==
    \E j \in Jobs :
        /\ program = "deploy.yml"
        /\ jobs[j] = "queued"
        /\ \A n \in Needs(j) : jobs[n] = "success"
        /\ jobs' = [jobs EXCEPT ![j] = "running"]
        /\ UNCHANGED <<program, nodeVars, runVars, shVars>>

\* a job one of whose needs failed or was skipped is skipped
JobSkip ==
    \E j \in Jobs :
        /\ program = "deploy.yml"
        /\ jobs[j] = "queued"
        /\ \E n \in Needs(j) : jobs[n] \in {"failure", "skipped"}
        /\ jobs' = [jobs EXCEPT ![j] = "skipped"]
        /\ UNCHANGED <<program, nodeVars, runVars, shVars>>

\* a running job ends: all its steps passed, or one failed
JobEnd ==
    \E j \in Jobs, ok \in BOOLEAN :
        /\ program = "deploy.yml"
        /\ jobs[j] = "running"
        /\ jobs' = [jobs EXCEPT ![j] = IF ok THEN "success" ELSE "failure"]
        /\ UNCHANGED <<program, nodeVars, runVars, shVars>>

\* ------------------------------------------------------------ deploy.sh
Ev(kind, name, rc) == [kind |-> kind, name |-> name, rc |-> rc]

\* Mutant: error() prints and returns.
ErrorNoExit(msg) == [out |-> << Ev("error", msg, 0) >>, exits |-> FALSE]

\* error(): prints the message, then exit 1
Error(msg) == [out |-> << Ev("error", msg, 0) >>, exits |-> TRUE]

\* Mutant: the script runs without set -e.
ErrExitOff(rc) == FALSE

\* set -e: a command that fails ends the script with its status
ErrExit(rc) == rc # 0

\* Mutant: an empty reply (Enter) counts as yes.
ReplyYesOrEnter(r) == r \in {"y", "Y", ""}

\* [[ $REPLY =~ ^[Yy]$ ]]
ReplyYes(r) == r \in {"y", "Y"}

\* check_prerequisites: the four tests, in order
Checks == << "command -v railway", "command -v vercel",
             "railway whoami", "vercel whoami" >>

\* main: the function that follows check_prerequisites
AfterChecks(opt) == IF opt = "--frontend-only" THEN "frontend_cd" ELSE "backend_init"

\* the script goes on to the command at next
ShStep(events, next) ==
    /\ trace' = trace \o events
    /\ shpc' = next
    /\ UNCHANGED exitStatus

\* the script ends
ShExit(events, code) ==
    /\ trace' = trace \o events
    /\ shpc' = "exited"
    /\ exitStatus' = code

\* a plain command has ended with rc
ShAfter(events, rc, next) ==
    IF ErrExit(rc) THEN ShExit(events, rc) ELSE ShStep(events, next)

\* error msg, followed by the rest of the branch when error returns
ShError(events, msg, next) ==
    IF Error(msg).exits
    THEN ShExit(events \o Error(msg).out, 1)
    ELSE ShStep(events \o Error(msg).out, next)

\* the script returns from its last function: exit status 0
ShReturn(events) == ShExit(events, 0)

\* main: the case on the first argument
ShMain ==
    /\ program = "deploy.sh"
    /\ shpc = "main"
    /\ \/ /\ option = "--help"
          /\ ShExit(<< Ev("msg", "show_help", 0) >>, 0)
       \/ /\ option \in {"", "--backend-only", "--frontend-only"}
          /\ ShStep(<< Ev("msg", "info " \o option, 0) >>, Checks[1])
       \/ /\ option \notin {"", "--help", "--backend-only", "--frontend-only"}
          /\ IF Error("unknown option").exits
             THEN ShExit(Error("unknown option").out, 1)
             ELSE ShExit(Error("unknown option").out
                         \o << Ev("msg", "show_help", 0) >>, 1)
    /\ UNCHANGED <<program, nodeVars, runVars, jobVars, option, projectFile, urlFile>>

\* check_prerequisites: one of the four tests
ShCheck ==
    \E k \in 1..Len(Checks), ok \in BOOLEAN :
        /\ program = "deploy.sh"
        /\ shpc = Checks[k]
        /\ LET next == IF k < Len(Checks) THEN Checks[k + 1] ELSE AfterChecks(option)
           IN IF ok
              THEN ShStep(<< Ev("check", Checks[k], 0) >>, next)
              ELSE ShError(<< Ev("check", Checks[k], 1) >>, Checks[k], next)
        /\ UNCHANGED <<program, nodeVars, runVars, jobVars, option, projectFile, urlFile>>

\* deploy_backend: railway init when there is no project file
ShBackendInit ==
    /\ program = "deploy.sh"
    /\ shpc = "backend_init"
    /\ \/ /\ projectFile
          /\ ShStep(<< >>, "backend_prompt")
       \/ /\ ~projectFile
          /\ \E rc \in CmdStatuses :
                ShAfter(<< Ev("cmd", "railway init", rc) >>, rc, "backend_prompt")
    /\ UNCHANGED <<program, nodeVars, runVars, jobVars, option, projectFile, urlFile>>

\* deploy_backend: read -p ... -n 1 -r and the test of REPLY
ShBackendPrompt ==
    \E reply \in Replies :
        /\ program = "deploy.sh"
        /\ shpc = "backend_prompt"
        /\ IF reply = "EOF"
           THEN ShAfter(<< Ev("read", reply, 1) >>, 1, "backend_up")
           ELSE IF ~ReplyYes(reply)
           THEN ShExit(<< Ev("read", reply, 0), Ev("msg", "set the variables", 0) >>, 0)
           ELSE ShStep(<< Ev("read", reply, 0) >>, "backend_up")
        /\ UNCHANGED <<program, nodeVars, runVars, jobVars, option, projectFile, urlFile>>

\* deploy_backend: railway up
ShBackendUp ==
    \E rc \in CmdStatuses :
        /\ program = "deploy.sh"
        /\ shpc = "backend_up"
        /\ ShAfter(<< Ev("cmd", "railway up", rc) >>, rc, "backend_url")
        /\ UNCHANGED <<program, nodeVars, runVars, jobVars, option, projectFile, urlFile>>

\* deploy_backend: BACKEND_URL=$(railway status ... || echo ""), then the
\* function returns: to deploy_frontend in the full mode, else the script ends
ShBackendUrl ==
    \E got \in BOOLEAN :
        /\ program = "deploy.sh"
        /\ shpc = "backend_url"
        /\ urlFile' = (urlFile \/ got)
        /\ LET ev == << Ev("cmd", "railway status", 0),
                        Ev("msg", IF got THEN "backend deployed" ELSE "no backend url", 0) >>
           IN IF option = "" THEN ShStep(ev, "frontend_cd") ELSE ShReturn(ev)
        /\ UNCHANGED <<program, nodeVars, runVars, jobVars, option, projectFile>>

\* deploy_frontend: cd "${PROJECT_ROOT}/frontend"
ShFrontendCd ==
    \E rc \in {0, 1} :
        /\ program = "deploy.sh"
        /\ shpc = "frontend_cd"
        /\ ShAfter(<< Ev("cmd", "cd frontend", rc) >>, rc, "frontend_env")
        /\ UNCHANGED <<program, nodeVars, runVars, jobVars, option, projectFile, urlFile>>

\* deploy_frontend: vercel env add ... || warn, when .railway_url exists
ShFrontendEnv ==
    /\ program = "deploy.sh"
    /\ shpc = "frontend_env"
    /\ \/ /\ urlFile
          /\ \E rc \in CmdStatuses :
                ShStep(<< Ev("cmd", "vercel env add", rc) >>, "frontend_install")
       \/ /\ ~urlFile
          /\ ShStep(<< Ev("msg", "no backend url file", 0) >>, "frontend_install")
    /\ UNCHANGED <<program, nodeVars, runVars, jobVars, option, projectFile, urlFile>>

\* deploy_frontend: [ -f package.json ], npm install, or the error
ShFrontendInstall ==
    /\ program = "deploy.sh"
    /\ shpc = "frontend_install"
    /\ \/ \E rc \in CmdStatuses :
            ShAfter(<< Ev("test", "-f package.json", 0),
                       Ev("cmd", "npm install", rc) >>, rc, "frontend_build")
       \/ ShError(<< Ev("test", "-f package.json", 1) >>,
                  "frontend/package.json not found", "frontend_deploy")
    /\ UNCHANGED <<program, nodeVars, runVars, jobVars, option, projectFile, urlFile>>

\* deploy_frontend: npm run build
ShFrontendBuild ==
    \E rc \in CmdStatuses :
        /\ program = "deploy.sh"
        /\ shpc = "frontend_build"
        /\ ShAfter(<< Ev("cmd", "npm run build", rc) >>, rc, "frontend_deploy")
        /\ UNCHANGED <<program, nodeVars, runVars, jobVars, option, projectFile, urlFile>>

\* deploy_frontend: vercel --prod, then the function returns: to
\* show_deployment_info in the full mode, else the script ends
ShFrontendDeploy ==
    \E rc \in CmdStatuses :
        /\ program = "deploy.sh"
        /\ shpc = "frontend_deploy"
        /\ LET ev == << Ev("cmd", "vercel --prod", rc) >>
           IN IF ErrExit(rc) THEN ShExit(ev, rc)
              ELSE IF option = "" THEN ShStep(ev, "info")
              ELSE ShReturn(ev)
        /\ UNCHANGED <<program, nodeVars, runVars, jobVars, option, projectFile, urlFile>>

\* show_deployment_info, the last command of the full mode
ShInfo ==
    /\ program = "deploy.sh"
    /\ shpc = "info"
    /\ ShReturn(<< Ev("msg", "show_deployment_info", 0) >>)
    /\ UNCHANGED <<program, nodeVars, runVars, jobVars, option, projectFile, urlFile>>

ShNext ==
    \/ ShMain \/ ShCheck
    \/ ShBackendInit \/ ShBackendPrompt \/ ShBackendUp \/ ShBackendUrl
    \/ ShFrontendCd \/ ShFrontendEnv \/ ShFrontendInstall \/ ShFrontendBuild
    \/ ShFrontendDeploy \/ ShInfo

Next == Main \/ TimerFire \/ FetchSettles \/ Tick
        \/ PingStart \/ PingHealth \/ PingModelInfo
        \/ JobStart \/ JobSkip \/ JobEnd
        \/ ShNext

Spec == Init /\ [][Next]_vars

\* process.env.RAILWAY_URL is assigned while the process runs
EnvChange ==
    \E v \in EnvValues :
        /\ program = "keep-alive.js"
        /\ v # env
        /\ env' = v
        /\ UNCHANGED <<program, RAILWAY_URL, pc, now, timer, ticks, probes, requests,
                       log, runVars, jobVars, shVars>>

\* keep-alive.js in a process whose environment is changed under it
EnvNext == Next \/ EnvChange
EnvSpec == Init /\ [][EnvNext]_vars

\* The timer and the clock are fair: a due timer fires, time passes.
LiveSpec == Spec /\ WF_vars(Main) /\ WF_vars(TimerFire) /\ WF_vars(Tick)

\* ------------------------------------------------------------ properties
Started == 1..Len(probes)
Pending == {i \in Started : probes[i].state = "pending"}
Settled == Started \ Pending
OutcomeLevels == {"success", "warning", "error"}
\* positions of the log entries of probe i at the given levels
EntriesOf(i, levels) ==
    {k \in 1..Len(log) : log[k].probe = i /\ log[k].level \in levels}
RequestsOf(i) == {k \in 1..Len(requests) : requests[k].probe = i}
Is2xx(st) == st \in 200..299

\* C1: every probe after the first starts exactly one interval after the one
\* before it, whatever happened to the earlier probes (failed, still in
\* flight), and the timer stays armed for one interval after the last start.
C1_FixedInterval ==
    /\ \A n \in Started : n + 1 \in Started =>
            probes[n + 1].start = probes[n].start + PING_INTERVAL
    /\ pc # "boot" =>
            /\ timer.armed
            /\ Len(probes) >= 1
            /\ timer.due = probes[Len(probes)].start + PING_INTERVAL

\* C1 witness: the third probe has started one interval after the second,
\* the first having failed and the second being still in flight.
C1_Witness ==
    /\ Len(probes) >= 3
    /\ probes[1].outcome.kind = "error"
    /\ probes[2].state = "pending"
    /\ probes[3].start = probes[2].start + PING_INTERVAL

\* C2: at startup one probe is issued at once; it is the only probe started
\* before one interval has passed, and the first probe started by the timer
\* starts at time PING_INTERVAL.
C2_WarmupProbe ==
    pc # "boot" =>
        /\ Cardinality({i \in Started : probes[i].start < PING_INTERVAL}) = 1
        /\ probes[1].via = "startup" /\ probes[1].start = 0
        /\ \A i \in Started : probes[i].via = "interval" =>
                probes[i].start >= PING_INTERVAL
        /\ Len(probes) = 1 => timer.armed /\ timer.due = PING_INTERVAL
        /\ Len(probes) >= 2 =>
                probes[2].via = "interval" /\ probes[2].start = PING_INTERVAL

\* C2 witness: the first interval has passed and the timer's first probe started.
C2_Witness ==
    /\ now = PING_INTERVAL
    /\ Len(probes) = 2
    /\ probes[2].via = "interval"

\* C3 as claimed: at most one probe is in flight at any moment.
C3_AtMostOneInFlight == Cardinality(Pending) <= 1

\* C3 amended: a probe still in flight when a later probe has been started has
\* been awaiting its response for at least one probe interval.
C3_OverlapOnlyAfterInterval ==
    \A i \in Pending : i < Len(probes) => now - probes[i].start >= PING_INTERVAL

\* C3 witness: a probe is started while the one before it is still in flight.
C3_Witness ==
    \E i \in Pending : i + 1 \in Pending /\ probes[i + 1].start = now

\* C4: no failure escapes a probe: no pingServer promise is rejected, the
\* process is not ended, and each failure has its log entry.
C4_NoFailureEscapes ==
    /\ pc # "crashed"
    /\ \A i \in Started : probes[i].state # "rejected"
    /\ \A i \in Started : probes[i].outcome.kind = "error" =>
            /\ probes[i].state = "fulfilled"
            /\ EntriesOf(i, {"error"}) # {}

\* C4 witness: a transport failure and a non-2xx answer have both been taken,
\* and the loop has gone on to start another probe.
C4_Witness ==
    /\ pc = "running"
    /\ \E i, j \in Settled :
        /\ probes[i].outcome.kind = "error"
        /\ probes[j].outcome.kind = "response" /\ probes[j].outcome.status = 503
        /\ i < Len(probes) /\ j < Len(probes)

\* C5: a probe whose request failed at transport level has exactly one log
\* entry, an error entry with the failure's message; it sent one request; the
\* loop goes on and the next probe is the one an interval later.
C5_TransportFailure ==
    \A i \in Started : probes[i].outcome.kind = "error" =>
        /\ Cardinality(EntriesOf(i, OutcomeLevels)) = 1
        /\ \A k \in EntriesOf(i, OutcomeLevels) :
                /\ log[k].level = "error"
                /\ log[k].message = probes[i].outcome.message
        /\ Cardinality(RequestsOf(i)) = 1
        /\ Len(requests) = ticks
        /\ pc = "running" /\ timer.armed
        /\ IF i < Len(probes)
           THEN probes[i + 1].start = probes[i].start + PING_INTERVAL
           ELSE timer.due = probes[i].start + PING_INTERVAL

\* C5 witness: a probe failed at transport level and the next probe has started.
C5_Witness ==
    \E i \in Settled : probes[i].outcome.kind = "error" /\ i < Len(probes)

\* C6: a probe answered with a 2xx status has exactly one success entry and
\* no warning and no error entry.
C6_SuccessEntry ==
    \A i \in Started :
        (probes[i].outcome.kind = "response" /\ Is2xx(probes[i].outcome.status)) =>
            /\ Cardinality(EntriesOf(i, {"success"})) = 1
            /\ EntriesOf(i, {"warning", "error"}) = {}

\* C6 witness: a probe was answered with 200.
C6_Witness ==
    \E i \in Settled : probes[i].outcome.kind = "response"
                       /\ probes[i].outcome.status = 200

\* C7: a probe answered with a status outside 2xx has exactly one warning
\* entry, which carries the status received, and no success and no error entry.
C7_WarningEntry ==
    \A i \in Started :
        (probes[i].outcome.kind = "response" /\ ~Is2xx(probes[i].outcome.status)) =>
            /\ Cardinality(EntriesOf(i, {"warning"})) = 1
            /\ \A k \in EntriesOf(i, {"warning"}) :
                    log[k].status = probes[i].outcome.status
            /\ EntriesOf(i, {"success", "error"}) = {}

\* C7 witness: a probe was answered with 503.
C7_Witness ==
    \E i \in Settled : probes[i].outcome.kind = "response"
                       /\ probes[i].outcome.status = 503

\* the workflow run has reported on its health request as alive
RunSaysAlive == \E k \in 1..Len(out) : out[k].level = "alive"

\* C8 as claimed: alive is reported for status 200 only, by both probers.
C8_AliveOnly200 ==
    /\ \A i \in Started : EntriesOf(i, {"success"}) # {} =>
            probes[i].outcome.kind = "response" /\ probes[i].outcome.status = 200
    /\ RunSaysAlive => curl.exit = 0 /\ curl.code = 200

\* C8 amended: the Node loop reports alive exactly for the statuses 200..299,
\* the workflow exactly for a curl that succeeded with status 200; neither
\* reports alive for another status or for a connection failure.
C8_AliveIff ==
    /\ \A i \in Settled :
            EntriesOf(i, {"success"}) # {} <=>
                (probes[i].outcome.kind = "response" /\ Is2xx(probes[i].outcome.status))
    /\ \A i \in Pending : EntriesOf(i, {"success"}) = {}
    /\ step \in {"model-info", "done"} =>
            (RunSaysAlive <=> (curl.exit = 0 /\ curl.code = 200))
    /\ step \in {"idle", "curl"} => ~RunSaysAlive

\* C8 witness: the Node loop has reported alive for a 204.
C8_Witness ==
    \E i \in Settled : /\ probes[i].outcome.status = 204
                       /\ EntriesOf(i, {"success"}) # {}

\* C9: every tick sends exactly one GET request and, once its request has
\* finished, has exactly one outcome entry: with all k ticks finished there
\* are k requests and k outcome entries.
C9_OnePerTick ==
    /\ Len(probes) = ticks
    /\ Len(requests) = ticks
    /\ \A i \in Started :
            /\ Cardinality(RequestsOf(i)) = 1
            /\ \A k \in RequestsOf(i) : requests[k].method = "GET"
    /\ \A i \in Settled : Cardinality(EntriesOf(i, OutcomeLevels)) = 1
    /\ \A i \in Pending : EntriesOf(i, OutcomeLevels) = {}
    /\ Pending = {} =>
            Cardinality({k \in 1..Len(log) : log[k].level \in OutcomeLevels}) = ticks

\* C9 witness: three ticks, all finished, one of them with a non-2xx answer.
C9_Witness ==
    /\ ticks = 3
    /\ Pending = {}
    /\ \E i \in Settled : probes[i].outcome.status = 503

\* C10: the loop never stops by itself: the timer stays armed and the process
\* running, and with a fair timer every probe is followed by another one (up
\* to the end of the observed time), whatever the outcomes so far.
C10_NeverStops ==
    /\ [](pc # "boot" => (pc = "running" /\ timer.armed))
    /\ \A k \in 1..MaxIntervals :
            (program = "keep-alive.js" /\ Len(probes) = k) ~> (Len(probes) = k + 1)

\* C10 witness: after two failed probes in a row a third probe has started.
C10_Witness ==
    /\ Len(probes) = 3
    /\ probes[1].outcome.kind = "error"
    /\ probes[2].outcome.kind = "error"

\* C11: the configuration is resolved once: RAILWAY_URL never changes after
\* startup, every request goes to RAILWAY_URL followed by /health, so all
\* requests of a run share one URL, and consecutive probes are one
\* PING_INTERVAL apart, whatever the environment holds later and whatever the
\* earlier probes ended with.
C11_ConfigFixed ==
    /\ [][RAILWAY_URL' = RAILWAY_URL]_vars
    /\ [](\A k \in 1..Len(requests) :
            /\ requests[k].url = RAILWAY_URL \o "/health"
            /\ requests[k].url = requests[1].url)
    /\ [](\A n \in Started : n + 1 \in Started =>
            probes[n + 1].start = probes[n].start + PING_INTERVAL)

\* C11 witness: a probe is started after an earlier probe failed and while the
\* environment holds another URL than the one resolved at startup.
C11_Witness ==
    /\ OrDefault(env, DEFAULT_URL) # RAILWAY_URL
    /\ Len(requests) >= 2
    /\ requests[Len(requests)].at = now
    /\ probes[1].outcome.kind = "error"

\* the kind of entry a probe's own answer calls for
ExpectedEntry(outcome) ==
    IF outcome.kind = "error"
    THEN [level |-> "error", status |-> 0, message |-> outcome.message]
    ELSE IF Is2xx(outcome.status)
    THEN [level |-> "success", status |-> 0, message |-> "Server is alive"]
    ELSE [level |-> "warning", status |-> outcome.status,
          message |-> "Server responded with"]
EntryKind(e) == [level |-> e.level, status |-> e.status, message |-> e.message]
KindsOf(i) == {EntryKind(log[k]) : k \in EntriesOf(i, OutcomeLevels)}

\* C12: the entry a probe emits depends on its own answer alone: it is the
\* entry that answer calls for whatever came before, and two probes with the
\* same answer emit the same kind of entry whatever their histories.
C12_NoHistory ==
    /\ \A i \in Settled : KindsOf(i) = {ExpectedEntry(probes[i].outcome)}
    /\ \A i, j \in Settled :
            probes[i].outcome = probes[j].outcome => KindsOf(i) = KindsOf(j)

\* C12 witness: two probes failed alike, the later one after an earlier
\* failure and the first one after none.
C12_Witness ==
    \E i, j \in Settled :
        /\ i < j
        /\ probes[i].outcome.kind = "error"
        /\ probes[j].outcome = probes[i].outcome
        /\ \A h \in 1..(i - 1) : probes[h].outcome.kind # "error"

\* C13: in every state the number of outcome entries is the number of
\* requests issued less the number still in flight; a probe in flight has no
\* entry and a finished probe has exactly one.
C13_LogCount ==
    /\ Cardinality({k \in 1..Len(log) : log[k].level \in OutcomeLevels})
            = Len(requests) - Cardinality(Pending)
    /\ \A i \in Pending : EntriesOf(i, OutcomeLevels) = {}
    /\ \A i \in Settled : Cardinality(EntriesOf(i, OutcomeLevels)) = 1
    /\ \A k \in 1..Len(log) : log[k].level \in OutcomeLevels =>
            log[k].probe \in Settled

\* C13 witness: two probes overlapped and the later one finished first, while
\* a third is still in flight.
C13_Witness ==
    /\ Pending # {}
    /\ \E k1, k2 \in 1..Len(log) :
        /\ k1 < k2
        /\ log[k1].level \in OutcomeLevels /\ log[k2].level \in OutcomeLevels
        /\ log[k1].probe > log[k2].probe

Ran == {"running", "success", "failure"}

\* C14: deploy-frontend starts only after deploy-backend succeeded,
\* test-deployment only after both deploy jobs succeeded; when deploy-backend
\* fails neither of the other two jobs runs.
C14_DeployOrder ==
    /\ jobs["deploy-frontend"] \in Ran => jobs["deploy-backend"] = "success"
    /\ jobs["test-deployment"] \in Ran =>
            jobs["deploy-backend"] = "success" /\ jobs["deploy-frontend"] = "success"
    /\ jobs["deploy-backend"] = "failure" =>
            /\ jobs["deploy-frontend"] \in {"queued", "skipped"}
            /\ jobs["test-deployment"] \in {"queued", "skipped"}

\* C14 witness: the backend deploy failed and both other jobs were skipped.
C14_Witness ==
    /\ jobs["deploy-backend"] = "failure"
    /\ jobs["deploy-frontend"] = "skipped"
    /\ jobs["test-deployment"] = "skipped"

\* positions of the trace holding the given command, test or message
At(kind, name) == {k \in 1..Len(trace) : trace[k].kind = kind /\ trace[k].name = name}
DeployCmds == {"railway init", "railway up", "vercel env add", "vercel --prod"}
DeployAt == {k \in 1..Len(trace) : trace[k].kind = "cmd" /\ trace[k].name \in DeployCmds}
FailedChecks == {k \in 1..Len(trace) : trace[k].kind = "check" /\ trace[k].rc # 0}
\* the step of the full mode an entry of the trace belongs to (0: none)
Phase(e) ==
    IF e.kind = "check" THEN 1
    ELSE IF e.kind = "read" \/ (e.kind = "cmd" /\ e.name \in
                {"railway init", "railway up", "railway status"}) THEN 2
    ELSE IF e.kind = "test" \/ (e.kind = "cmd" /\ e.name \in
                {"cd frontend", "vercel env add", "npm install", "npm run build",
                 "vercel --prod"}) THEN 3
    ELSE IF e.kind = "msg" /\ e.name = "show_deployment_info" THEN 4
    ELSE 0
PhasesSeen == {Phase(trace[k]) : k \in 1..Len(trace)}

\* C15: no deploy command runs unless the four checks passed before it, in
\* their order; a failing check is the last thing run and ends the script
\* with status 1; in the full mode the steps come in the order checks,
\* backend, frontend, deployment info.
C15_ChecksFirst ==
    /\ \A k \in DeployAt : \A c \in 1..Len(Checks) :
            \E h \in 1..(k - 1) : trace[h] = Ev("check", Checks[c], 0)
    /\ \A k \in DeployAt : \A h \in 1..(k - 1) : trace[h].kind = "check" => trace[h].rc = 0
    /\ \A h, k \in 1..Len(trace) :
            (h < k /\ trace[h].kind = "check" /\ trace[k].kind = "check") =>
                \E c, d \in 1..Len(Checks) :
                    c < d /\ trace[h].name = Checks[c] /\ trace[k].name = Checks[d]
    /\ \A k \in FailedChecks :
            /\ shpc = "exited" /\ exitStatus = 1
            /\ \A h \in (k + 1)..Len(trace) : trace[h].kind = "error"
    /\ option = "" =>
            /\ \A h, k \in 1..Len(trace) :
                    (h < k /\ Phase(trace[h]) # 0 /\ Phase(trace[k]) # 0) =>
                        Phase(trace[h]) <= Phase(trace[k])
            /\ 4 \in PhasesSeen => {1, 2, 3} \subseteq PhasesSeen
            /\ 3 \in PhasesSeen => {1, 2} \subseteq PhasesSeen
            /\ 2 \in PhasesSeen => 1 \in PhasesSeen

\* C15 witness: the full mode has run through to the deployment info.
C15_Witness ==
    /\ option = ""
    /\ shpc = "exited" /\ exitStatus = 0
    /\ At("cmd", "railway up") # {} /\ At("cmd", "vercel --prod") # {}
    /\ At("msg", "show_deployment_info") # {}

\* the install or the build did not succeed
FrontendBroken ==
    \/ Ev("test", "-f package.json", 1) \in {trace[k] : k \in 1..Len(trace)}
    \/ \E k \in At("cmd", "npm install") \cup At("cmd", "npm run build") : trace[k].rc # 0

\* C16: vercel --prod runs only after npm install and then npm run build
\* succeeded; a missing package.json, a failing npm install or a failing
\* npm run build ends the script with a non-zero status and no vercel --prod.
C16_BuildBeforeDeploy ==
    /\ \A k \in At("cmd", "vercel --prod") :
            \E h1, h2 \in 1..(k - 1) :
                /\ h1 < h2
                /\ trace[h1] = Ev("cmd", "npm install", 0)
                /\ trace[h2] = Ev("cmd", "npm run build", 0)
    /\ FrontendBroken =>
            /\ shpc = "exited" /\ exitStatus > 0
            /\ At("cmd", "vercel --prod") = {}

\* C16 witness: the build test failed after a good install and the script is over.
C16_Witness ==
    /\ Ev("cmd", "npm install", 0) \in {trace[k] : k \in 1..Len(trace)}
    /\ \E k \in At("cmd", "npm run build") : trace[k].rc # 0
    /\ shpc = "exited"

KnownOptions == {"", "--help", "--backend-only", "--frontend-only"}

\* C17 as claimed: on an unknown option the script prints the unknown-option
\* error, then the usage help, and exits with status 1 without any check or
\* deploy step.
C17_UnknownOptionShowsHelp ==
    (program = "deploy.sh" /\ option \notin KnownOptions /\ shpc = "exited") =>
        /\ trace = << Ev("error", "unknown option", 0), Ev("msg", "show_help", 0) >>
        /\ exitStatus = 1

\* the answer read at the prompt, when one was read
ReadAt == {k \in 1..Len(trace) : trace[k].kind = "read"}
NothingAfterPrompt ==
    /\ At("cmd", "railway up") = {}
    /\ 3 \notin PhasesSeen
    /\ 4 \notin PhasesSeen

\* C18 as claimed: whenever the answer is not y or Y the script ends with
\* status 0 without railway up, frontend step or deployment info.
C18_NoAnswerExitsZero ==
    \A k \in ReadAt : trace[k].name \notin {"y", "Y"} =>
        /\ shpc = "exited" /\ exitStatus = 0
        /\ NothingAfterPrompt

\* C18 amended: an answer read that is not y or Y ends the script with
\* status 0; when no answer can be read (end of input) the script ends with
\* status 1; in both cases without railway up, frontend step or deployment
\* info; railway up runs only after an answer y or Y.
C18_DeclineStops ==
    /\ \A k \in ReadAt : trace[k].name \in {"n", ""} =>
            /\ shpc = "exited" /\ exitStatus = 0
            /\ NothingAfterPrompt
    /\ \A k \in ReadAt : trace[k].name = "EOF" =>
            /\ shpc = "exited" /\ exitStatus = 1
            /\ NothingAfterPrompt
    /\ \A k \in At("cmd", "railway up") :
            \E h \in ReadAt : h < k /\ trace[h].name \in {"y", "Y"}

\* C18 witness: in the full mode the operator pressed Enter and the script is over.
C18_Witness ==
    /\ option = ""
    /\ \E k \in ReadAt : trace[k].name = ""
    /\ shpc = "exited" /\ exitStatus = 0

====
